---- MODULE Spec2Model ----
(***************************************************************************)
(* Model of the 25AA1024 serial EEPROM driver (src/25AA1024.h).            *)
(*                                                                         *)
(* Every C function is an operator that takes the machine m (the AVR port  *)
(* registers, the attached device and the log of hardware accesses) and    *)
(* returns the SET of its possible outcomes [m, ret, ...]: the driver is   *)
(* deterministic, the hardware is not (a pin may read back differently     *)
(* from its latch, a transport call may fail, the device answers with some *)
(* byte).  Sequential composition in the C code is UNION over the outcomes *)
(* of the callee.                                                          *)
(***************************************************************************)
EXTENDS Integers, Sequences, FiniteSets, TLC

\* WP_USED is the build setting of the driver (MEMFALSE as shipped, MEMTRUE
\* when the microcontroller runs the !WP pins): it never changes in a run.
VARIABLES ContPort, ContDDR, dev, trace, call, ret, out, WP_USED

vars == <<ContPort, ContDDR, dev, trace, call, ret, out, WP_USED>>

(***************************************************************************)
(* Program constants                                                       *)
(***************************************************************************)
MEMSUCC == 0
MEMFAIL == 2
MEMTRUE == 1
MEMFALSE == 0

CS0 == 0
CS1 == 1
CS2 == 2
CS3 == 3
WP0 == 4
WP1 == 5
WP2 == 6
WP3 == 7

MREAD == 3
MWRITE == 2
MWREN == 6
MWRDI == 4
MPE == 66
MSE == 216
MCE == 199
MRDSR == 5
MWRSR == 1
MRDID == 171
MDPD == 185
MWIP == 0
MDEVICE == 41
WakeDummyAddress == 10855845
StatusMask == 140

PAGE_SIZE == 256
NUM_PAGES == 512
MEMSIZE == 131071

BP00 == 131071
BP01 == 98303
BP10 == 65535
BP11 == 0
MBP0 == 2
MBP1 == 3

(***************************************************************************)
(* Bounds of the model                                                     *)
(***************************************************************************)
MaxBadChip == 4
MaxNumBytes == 2
MaxDevShift == 2
MaxPolls == 2

GoodChipArgs == {0, 1, 3}
BadChipArgs == {-1} \cup 4..MaxBadChip
ChipArgs == GoodChipArgs \cup BadChipArgs
AllChipArgs == 0..3 \cup BadChipArgs
AddrArgs == {74565, 131071, 2141965807}
NumBytesArgs == 0..MaxNumBytes
ReadCountArgs == {-32768, -1} \cup NumBytesArgs
StatusArgs == {0, 140, 8}
RxBytes == {0, 41, 141, 114}
WriteRxBytes == {0, 4, 41, 141}
DevStatusInit == {0, 8, 140}
DevWiring == {"mcu", "low"}
DevChipArgs == {0}
CommandArgs == {MRDSR, MDPD, MWRSR}
Unwritten == -1

\* Addresses for GetPage: the first, second and last byte of pages on both
\* sides of the end of the array and of the range of a 16-bit int.
PageArgs == {0, 1, 2, 255, 511, 512, 513, 32767, 32768, 65536}
PageAddrArgs == { p * PAGE_SIZE + o : p \in PageArgs, o \in {0, 1, 255} }
PageVarInit == {Unwritten, 0, 7}

\* Addresses on both sides of each bound of the block protection table.
ProtAddrArgs == {0, 1, BP10, BP10 + 1, BP01, BP01 + 1, BP00, BP00 + 1}
LevelArgs == 0..3

\* WriteData: <<Address, NumBytes>> with page boundaries inside the range,
\* and the caller's data.
WriteArgs == { <<251, 10>>, <<65790, 3>> }
WriteChipArgs == {0}
EraseAddrArgs == {251, 65790}
WData == [i \in 0..9 |-> 160 + i]

(***************************************************************************)
(* Bit arithmetic on registers and shorts                                  *)
(***************************************************************************)
Pow2(n) == 2 ^ n

TestBit(v, b) == (v \div Pow2(b)) % 2 = 1

BitSet(v, b) == IF TestBit(v, b) THEN v ELSE v + Pow2(b)

BitClear(v, b) == IF TestBit(v, b) THEN v - Pow2(b) ELSE v

BitFlip(v, b) == IF TestBit(v, b) THEN v - Pow2(b) ELSE v + Pow2(b)

RECURSIVE BitAnd(_, _)
BitAnd(a, b) ==
    IF a = 0 \/ b = 0 THEN 0
    ELSE (a % 2) * (b % 2) + 2 * BitAnd(a \div 2, b \div 2)

(***************************************************************************)
(* The log of hardware accesses of the call in progress:                   *)
(*   <<"drive", line, level>>  ContPort bit written                        *)
(*   <<"pin", line, bit>>      RContPort read, bit of the tested line      *)
(*   <<"tx", byte, ok>>        SPI_Write_Byte, ok = 1 when it returned 0   *)
(*   <<"rx", byte, ok>>        SPI_Read_Byte, ok = 1 when it returned 0    *)
(***************************************************************************)
Log(m, e) == [m EXCEPT !.trace = Append(@, e)]

(***************************************************************************)
(* The attached device, as the source documents it (the data sheet text    *)
(* quoted above ReadMemStatus and WriteMemStatus).  One device is wired to *)
(* the lines of chip DevChip.  dev.on = FALSE is the abstract bus: no      *)
(* device is modelled and a receive returns any byte of RxBytes.           *)
(*   sr     the STATUS register                                            *)
(*   frame  the bytes clocked in since chip-select fell: the opcode, the   *)
(*          byte after it, and Dummy for anything more (and for the clocks *)
(*          of a receive outside a read); <<>> while deselected            *)
(*   wp     "mcu": the WP pin follows the port line; "low": tied low       *)
(*   ptr    the internal Address Pointer of a READ whose address has been  *)
(*          clocked in; NoPtr otherwise (and when a byte of the address    *)
(*          was the placeholder of a receive)                              *)
(*   rx     the bytes a receive may return when the data line carries no   *)
(*          defined value                                                  *)
(*   glitch whether a control line may read back at the other level than   *)
(*          the one just driven                                            *)
(***************************************************************************)
DevChip == 0
DevCS == CS0
DevWP == WP0
Dummy == -1
NoPtr == -1
NoDev ==
    [on |-> FALSE, sr |-> 0, frame |-> <<>>, wp |-> "mcu", ptr |-> NoPtr,
     rx |-> RxBytes, glitch |-> TRUE]

\* The contents of the array: no operation of the driver changes them.
DevMemory(a) == (7 * a + a \div PAGE_SIZE + 1) % 256

\* The 24-bit address of a READ frame: the seven MSBs are don't care.
DevAddress(f) ==
    IF Dummy \in {f[2], f[3], f[4]} THEN NoPtr
    ELSE ((f[2] * 65536 + f[3] * 256 + f[4]) % (MEMSIZE + 1))

DevSelected(d, port) == d.on /\ ~TestBit(port, DevCS)

DevWPLow(d, port) == d.wp = "low" \/ ~TestBit(port, DevWP)

\* Hardware write protection: WP pin low and WPEN (bit 7) high.
DevHwProtected(d, port) == DevWPLow(d, port) /\ TestBit(d.sr, 7)

\* WRSR: the nonvolatile bits (WPEN, BP1, BP0) take the payload's values.
DevWriteStatus(sr, v) == sr - BitAnd(sr, StatusMask) + BitAnd(v, StatusMask)

\* Chip-select raised: a WRSR frame of exactly opcode + payload is executed
\* unless the device is hardware write-protected; the frame ends.
DevDeselect(d, port) ==
    [d EXCEPT !.frame = <<>>, !.ptr = NoPtr,
              !.sr = IF Len(d.frame) = 2 /\ d.frame[1] = MWRSR
                        /\ ~DevHwProtected(d, port)
                     THEN DevWriteStatus(@, d.frame[2]) ELSE @]

\* The port latch changes from m.port to port.
DevPort(m, port) ==
    LET was == TestBit(m.port, DevCS)
        is == TestBit(port, DevCS)
        d == IF ~m.dev.on \/ was = is THEN m.dev
             ELSE IF is THEN DevDeselect(m.dev, m.port)
             ELSE [m.dev EXCEPT !.frame = <<>>, !.ptr = NoPtr]
    IN  [m EXCEPT !.port = port, !.dev = d]

\* A byte is clocked into a READ frame: an address byte, or eight more
\* clocks that shift a data byte out and increment the Address Pointer,
\* which rolls over from 1FFFFh to 00000h.
DevClockRead(d, byte) ==
    IF Len(d.frame) < 4
    THEN LET f == Append(d.frame, byte)
         IN  [d EXCEPT !.frame = f,
                       !.ptr = IF Len(f) = 4 THEN DevAddress(f) ELSE NoPtr]
    ELSE [d EXCEPT !.ptr = IF @ = NoPtr THEN NoPtr
                           ELSE (@ + 1) % (MEMSIZE + 1)]

\* The data bytes shifted out so far in the READ frame in progress.
DevShifted(d) ==
    IF d.ptr = NoPtr THEN 0
    ELSE (d.ptr - DevAddress(d.frame)) % (MEMSIZE + 1)

\* A byte is clocked into the selected device.
DevClock(m, byte) ==
    IF ~DevSelected(m.dev, m.port) THEN m
    ELSE IF Len(m.dev.frame) >= 1 /\ m.dev.frame[1] = MREAD
    THEN [m EXCEPT !.dev = DevClockRead(@, byte)]
    ELSE IF Len(m.dev.frame) < 2
    THEN [m EXCEPT !.dev.frame = Append(@, byte)]
    ELSE [m EXCEPT !.dev.frame = <<@[1], Dummy, Dummy>>]

\* What the device shifts out: the STATUS register inside an RDSR frame, the
\* byte at the Address Pointer inside a READ frame, otherwise the data line
\* carries no defined value.
DevOut(m) ==
    IF ~DevSelected(m.dev, m.port) \/ Len(m.dev.frame) = 0 THEN m.dev.rx
    ELSE IF m.dev.frame[1] = MRDSR THEN {m.dev.sr}
    ELSE IF m.dev.frame[1] = MREAD /\ m.dev.ptr # NoPtr
    THEN {DevMemory(m.dev.ptr)}
    ELSE m.dev.rx

DevInRead(m) ==
    DevSelected(m.dev, m.port) /\ Len(m.dev.frame) >= 1
    /\ m.dev.frame[1] = MRDSR

(***************************************************************************)
(* Pin Mux                                                                 *)
(***************************************************************************)
\* Mutant: chip 2 is given the chip-select line of chip 3.
GetCS_Chip2OnCS3(chip) ==
    CASE chip = 0 -> CS0
      [] chip = 1 -> CS1
      [] chip = 2 -> CS3
      [] chip = 3 -> CS3
      [] OTHER -> CS0

GetCS(chip) ==
    CASE chip = 0 -> CS0
      [] chip = 1 -> CS1
      [] chip = 2 -> CS2
      [] chip = 3 -> CS3
      [] OTHER -> CS0

GetWP(chip) ==
    CASE chip = 0 -> WP0
      [] chip = 1 -> WP1
      [] chip = 2 -> WP2
      [] chip = 3 -> WP3
      [] OTHER -> WP0

\* PINA as the program may read it after writing line of PORTA: the latch
\* value, or the latch value with that line not (yet) at the driven level.
RContPort(m, line) ==
    IF m.dev.glitch THEN {m.port, BitFlip(m.port, line)} ELSE {m.port}

\* ContPort |= (1<<line)
DriveHigh(m, line) ==
    Log(DevPort(m, BitSet(m.port, line)), <<"drive", line, 1>>)

\* ContPort &= ~(1<<line)
DriveLow(m, line) ==
    Log(DevPort(m, BitClear(m.port, line)), <<"drive", line, 0>>)

ReadPin(m, line, temp) ==
    Log(m, <<"pin", line, IF TestBit(temp, line) THEN 1 ELSE 0>>)

SetCS(m, chip) ==
    LET CCS == GetCS(chip)
        m1 == DriveHigh(m, CCS)
    IN  { [m |-> ReadPin(m1, CCS, temp),
           ret |-> IF TestBit(temp, CCS) THEN MEMSUCC ELSE MEMFAIL]
          : temp \in RContPort(m1, CCS) }

ClearCS(m, chip) ==
    LET CCS == GetCS(chip)
        m1 == DriveLow(m, CCS)
    IN  { [m |-> ReadPin(m1, CCS, temp),
           ret |-> IF ~TestBit(temp, CCS) THEN MEMSUCC ELSE MEMFAIL]
          : temp \in RContPort(m1, CCS) }

SetWP(m, chip) ==
    LET CWP == GetWP(chip)
        m1 == DriveHigh(m, CWP)
    IN  { [m |-> ReadPin(m1, CWP, temp),
           ret |-> IF TestBit(temp, CWP) THEN MEMSUCC ELSE MEMFAIL]
          : temp \in RContPort(m1, CWP) }

\* Mutant: the read-back tests the chip-select bit of the chip.
ClearWP_TestsCS(m, chip) ==
    LET CWP == GetWP(chip)
        CCS == GetCS(chip)
        m1 == DriveLow(m, CWP)
    IN  { [m |-> ReadPin(m1, CWP, temp),
           ret |-> IF ~TestBit(temp, CCS) THEN MEMSUCC ELSE MEMFAIL]
          : temp \in RContPort(m1, CWP) }

ClearWP(m, chip) ==
    LET CWP == GetWP(chip)
        m1 == DriveLow(m, CWP)
    IN  { [m |-> ReadPin(m1, CWP, temp),
           ret |-> IF ~TestBit(temp, CWP) THEN MEMSUCC ELSE MEMFAIL]
          : temp \in RContPort(m1, CWP) }

(***************************************************************************)
(* External transport (TinySPI): returns 0 on success                      *)
(***************************************************************************)
SPI_Write_Byte(m, byte) ==
    { [m |-> Log(DevClock(m, byte), <<"tx", byte, 1>>), ret |-> 0],
      [m |-> Log(m, <<"tx", byte, 0>>), ret |-> 1] }

SPI_Read_Byte(m) ==
    { [m |-> Log(IF DevInRead(m) THEN m ELSE DevClock(m, Dummy),
                 <<"rx", b, 1>>),
       ret |-> 0, byte |-> b] : b \in DevOut(m) }
    \cup { [m |-> Log(m, <<"rx", 0, 0>>), ret |-> 1, byte |-> Unwritten] }

(***************************************************************************)
(* Byte Framer                                                             *)
(***************************************************************************)
SendByte(m, byte) ==
    { [m |-> r.m, ret |-> IF r.ret # 0 THEN MEMFAIL ELSE MEMSUCC]
      : r \in SPI_Write_Byte(m, byte) }

ReadByte(m) ==
    { [m |-> r.m, ret |-> IF r.ret # 0 THEN MEMFAIL ELSE MEMSUCC,
       byte |-> r.byte] : r \in SPI_Read_Byte(m) }

\* The result of ClearCS is not looked at.
SendCommand(m, chip, Command) ==
    UNION { SendByte(r.m, Command) : r \in ClearCS(m, chip) }

Addr_Hi(Address) == (Address \div 65536) % 256

\* Mutant: the middle byte is taken from bits 23-16 again.
Addr_LoHi_Shift16(Address) == (Address \div 65536) % 256

Addr_LoHi(Address) == (Address \div 256) % 256

Addr_LoLo(Address) == Address % 256

SendAddress(m, chip, Address) ==
    UNION { IF r1.ret # 0 THEN {[m |-> r1.m, ret |-> MEMFAIL]}
            ELSE UNION { IF r2.ret # 0 THEN {[m |-> r2.m, ret |-> MEMFAIL]}
                         ELSE { [m |-> r3.m,
                                 ret |-> IF r3.ret # 0 THEN MEMFAIL
                                         ELSE MEMSUCC]
                                : r3 \in SendByte(r2.m, Addr_LoLo(Address)) }
                         : r2 \in SendByte(r1.m, Addr_LoHi(Address)) }
            : r1 \in SendByte(m, Addr_Hi(Address)) }

SendCommandAndAddress(m, chip, Command, Address) ==
    UNION { IF r1.ret # 0 THEN {[m |-> r1.m, ret |-> MEMFAIL]}
            ELSE { [m |-> r2.m,
                    ret |-> IF r2.ret # 0 THEN MEMFAIL ELSE MEMSUCC]
                   : r2 \in SendAddress(r1.m, chip, Address) }
            : r1 \in SendCommand(m, chip, Command) }

(***************************************************************************)
(* Orchestrator and Status Register Protocol                               *)
(***************************************************************************)
DataBuf == [i \in 0..(MaxNumBytes - 1) |-> Unwritten]

\* Mutant: the loop runs once more (count <= NumBytes).
CountBelow_OffByOne(count, NumBytes) == NumBytes < 0 \/ count <= NumBytes

\* count < NumBytes with count unsigned long: NumBytes is converted to
\* unsigned, so a negative NumBytes is larger than every count of the model.
CountBelow(count, NumBytes) == NumBytes < 0 \/ count < NumBytes

\* data is the caller's array.  A store past its end (count outside DOMAIN
\* data, which a negative NumBytes leads to) has no defined outcome: the call
\* is followed up to that store and no further.
RECURSIVE ReadLoop(_, _, _, _)
ReadLoop(m, count, NumBytes, data) ==
    IF ~CountBelow(count, NumBytes)
    THEN {[m |-> m, ret |-> MEMSUCC, data |-> data]}
    ELSE UNION { IF r.ret # 0
                 THEN {[m |-> r.m, ret |-> MEMFAIL, data |-> data]}
                 ELSE IF count \notin DOMAIN data THEN {}
                 ELSE ReadLoop(r.m, count + 1, NumBytes,
                               [data EXCEPT ![count] = r.byte])
                 : r \in ReadByte(m) }

ReadData(m, chip, Address, NumBytes, data) ==
    UNION { IF r1.ret # 0
            THEN {[m |-> r1.m, ret |-> MEMFAIL, out |-> data]}
            ELSE UNION { IF r2.ret # 0
                         THEN {[m |-> r2.m, ret |-> MEMFAIL, out |-> r2.data]}
                         ELSE { [m |-> r3.m,
                                 ret |-> IF r3.ret # 0 THEN MEMFAIL
                                         ELSE MEMSUCC,
                                 out |-> r2.data]
                                : r3 \in SetCS(r2.m, chip) }
                         : r2 \in ReadLoop(r1.m, 0, NumBytes, data) }
            : r1 \in SendCommandAndAddress(m, chip, MREAD, Address) }

WakeMem(m, chip) ==
    UNION { IF r1.ret # 0 THEN {[m |-> r1.m, ret |-> MEMFAIL]}
            ELSE UNION { IF r2.ret # 0 THEN {[m |-> r2.m, ret |-> MEMFAIL]}
                         ELSE { [m |-> r3.m,
                                 ret |-> IF r3.ret # 0 THEN MEMFAIL
                                         ELSE IF r2.byte # MDEVICE
                                              THEN MEMFAIL ELSE MEMSUCC]
                                : r3 \in SetCS(r2.m, chip) }
                         : r2 \in ReadByte(r1.m) }
            : r1 \in SendCommandAndAddress(m, chip, MRDID,
                                           WakeDummyAddress) }

\* Mutant: the line is driven whatever the build setting is.
ClearWPIfUsed_Always(m, chip) == ClearWP(m, chip)

\* if( WP_USED ) if( ClearWP( chip ) ) return MEMFAIL;
ClearWPIfUsed(m, chip) ==
    IF WP_USED # 0 THEN ClearWP(m, chip) ELSE {[m |-> m, ret |-> MEMSUCC]}

SleepMem(m, chip) ==
    UNION { IF r0.ret # 0 THEN {[m |-> r0.m, ret |-> MEMFAIL]}
            ELSE UNION { IF r1.ret # 0 THEN {[m |-> r1.m, ret |-> MEMFAIL]}
                         ELSE UNION { IF r2.ret # 0
                                      THEN {[m |-> r2.m, ret |-> MEMFAIL]}
                                      ELSE { [m |-> r3.m,
                                              ret |-> IF r3.ret # 0
                                                      THEN MEMFAIL
                                                      ELSE MEMSUCC]
                                             : r3 \in SetCS(r2.m, chip) }
                                      : r2 \in SendCommand(r1.m, chip, MDPD) }
                         : r1 \in ClearCS(r0.m, chip) }
            : r0 \in ClearWPIfUsed(m, chip) }

\* Mutant: the status read ends its frame like the other operations do.
ReadMemStatus_Deselect(m, chip, status) ==
    UNION { IF r1.ret # 0
            THEN {[m |-> r1.m, ret |-> MEMFAIL, out |-> status]}
            ELSE UNION { IF r2.ret # 0
                         THEN {[m |-> r2.m, ret |-> MEMFAIL, out |-> status]}
                         ELSE { [m |-> r3.m,
                                 ret |-> IF r3.ret # 0 THEN MEMFAIL
                                         ELSE MEMSUCC,
                                 out |-> r2.byte]
                                : r3 \in SetCS(r2.m, chip) }
                         : r2 \in ReadByte(r1.m) }
            : r1 \in SendCommand(m, chip, MRDSR) }

\* status is the caller's variable: it keeps its value on a failure.
ReadMemStatus(m, chip, status) ==
    UNION { IF r1.ret # 0
            THEN {[m |-> r1.m, ret |-> MEMFAIL, out |-> status]}
            ELSE { IF r2.ret # 0
                   THEN [m |-> r2.m, ret |-> MEMFAIL, out |-> status]
                   ELSE [m |-> r2.m, ret |-> MEMSUCC, out |-> r2.byte]
                   : r2 \in ReadByte(r1.m) }
            : r1 \in SendCommand(m, chip, MRDSR) }

\* Mutant: the whole byte is compared, not the bits of the mask.
StatusMatches_Exact(temp, new_status) == temp = new_status

StatusMatches(temp, new_status) ==
    BitAnd(temp, StatusMask) = BitAnd(new_status, StatusMask)

\* Mutant: write protection is re-asserted before the payload byte is sent.
WriteMemStatus_EarlyWP(m, chip, status) ==
    LET temp == status
        fail(r) == {[m |-> r.m, ret |-> MEMFAIL, out |-> Unwritten]}
    IN  UNION { IF r1.ret # 0 THEN fail(r1) ELSE
        UNION { IF r2.ret # 0 THEN fail(r2) ELSE
        UNION { IF r3.ret # 0 THEN fail(r3) ELSE
        UNION { IF r4.ret # 0 THEN fail(r4) ELSE
                { IF r5.ret # 0
                  THEN [m |-> r5.m, ret |-> MEMFAIL, out |-> Unwritten]
                  ELSE [m |-> r5.m,
                        ret |-> IF ~StatusMatches(temp, r5.out)
                                THEN MEMFAIL ELSE MEMSUCC,
                        out |-> r5.out]
                  : r5 \in ReadMemStatus(r4.m, chip, Unwritten) }
                : r4 \in SendByte(r3.m, temp) }
                : r3 \in ClearWP(r2.m, chip) }
                : r2 \in SendCommand(r1.m, chip, MWRSR) }
                : r1 \in SetWP(m, chip) }

WriteMemStatus(m, chip, status) ==
    LET temp == status
        fail(r) == {[m |-> r.m, ret |-> MEMFAIL, out |-> Unwritten]}
    IN  UNION { IF r1.ret # 0 THEN fail(r1) ELSE
        UNION { IF r2.ret # 0 THEN fail(r2) ELSE
        UNION { IF r3.ret # 0 THEN fail(r3) ELSE
        UNION { IF r4.ret # 0 THEN fail(r4) ELSE
                { IF r5.ret # 0
                  THEN [m |-> r5.m, ret |-> MEMFAIL, out |-> Unwritten]
                  ELSE [m |-> r5.m,
                        ret |-> IF ~StatusMatches(temp, r5.out)
                                THEN MEMFAIL ELSE MEMSUCC,
                        out |-> r5.out]
                  : r5 \in ReadMemStatus(r4.m, chip, Unwritten) }
                : r4 \in ClearWP(r3.m, chip) }
                : r3 \in SendByte(r2.m, temp) }
                : r2 \in SendCommand(r1.m, chip, MWRSR) }
                : r1 \in SetWP(m, chip) }

\* Mutant: the bit tested is WEL (bit 1).
CheckWIP_TestsWEL(m, chip) ==
    UNION { IF r.ret # 0 THEN {[m |-> r.m, ret |-> MEMFAIL]}
            ELSE {[m |-> r.m,
                   ret |-> IF TestBit(r.out, MWIP + 1) THEN MEMTRUE
                           ELSE MEMFALSE]}
            : r \in ReadMemStatus(m, chip, Unwritten) }

CheckWIP(m, chip) ==
    UNION { IF r.ret # 0 THEN {[m |-> r.m, ret |-> MEMFAIL]}
            ELSE {[m |-> r.m,
                   ret |-> IF TestBit(r.out, MWIP) THEN MEMTRUE
                           ELSE MEMFALSE]}
            : r \in ReadMemStatus(m, chip, Unwritten) }

(***************************************************************************)
(* Protection Policy                                                       *)
(***************************************************************************)
\* long / long of C: the quotient is truncated towards zero.
CDiv(a, b) == IF a >= 0 THEN a \div b ELSE -((-a) \div b)

\* (int) of a long on the AVR, where int has 16 bits.
ToInt(v) == ((v + 32768) % 65536) - 32768

\* page is the caller's variable.  The function points its own copy of the
\* pointer at temp (page = &temp; page--) and stores nothing through it.
GetPage(Address, page) ==
    LET temp == ToInt(CDiv(Address, PAGE_SIZE))
    IN  [ret |-> IF temp > 511 THEN MEMFAIL ELSE MEMSUCC, page |-> page]

\* Mutant: the comparison is the other way round.
Min_Larger(num1, num2) == IF num1 > num2 THEN num1 ELSE num2

Min(num1, num2) == IF num1 < num2 THEN num1 ELSE num2

\* Mutant: the level is taken from the two lowest bits (WEL, WIP).
BPLevel_Unshifted(status) == status % 4

\* The block protection level: bits BP1, BP0 of the STATUS register.
BPLevel(status) ==
    (IF TestBit(status, MBP1) THEN 2 ELSE 0)
    + (IF TestBit(status, MBP0) THEN 1 ELSE 0)

\* Mutant: the bounds of the levels 1 and 2 are exchanged.
UnprotectedBound_Swapped(level) ==
    CASE level = 0 -> BP00
      [] level = 1 -> BP10
      [] level = 2 -> BP01
      [] level = 3 -> BP11

\* The HIGH address of the UNPROTECTED part of the memory, per level.
UnprotectedBound(level) ==
    CASE level = 0 -> BP00
      [] level = 1 -> BP01
      [] level = 2 -> BP10
      [] level = 3 -> BP11

\* isProtected(level, address) of the Protection Policy: an address above
\* the bound of the level is protected.
IsProtected(level, Address) == Address > UnprotectedBound(level)

(***************************************************************************)
(* The mutating operations.  The source declares them (WriteData,          *)
(* WriteEnable, WriteDisable, ErasePage, EraseSector, EraseChip,           *)
(* CheckProtect) and does not define them: they are modelled as the        *)
(* Orchestrator and the Protection Policy are specified, on top of the     *)
(* framer and the status protocol of the source.                           *)
(***************************************************************************)
\* S; if it failed return MEMFAIL, else go on with F from where S ended.
Then(S, F(_)) ==
    UNION { IF r.ret # 0 THEN {[m |-> r.m, ret |-> MEMFAIL]} ELSE F(r.m)
            : r \in S }

Done(m) == {[m |-> m, ret |-> MEMSUCC]}

\* Single-opcode commands in a frame of their own.
WriteEnable(m, chip) ==
    Then(SendCommand(m, chip, MWREN), LAMBDA m1 :
    Then(SetCS(m1, chip), Done))

WriteDisable(m, chip) ==
    Then(SendCommand(m, chip, MWRDI), LAMBDA m1 :
    Then(SetCS(m1, chip), Done))

\* Reads the block protection level of the chip and deselects: MEMTRUE when
\* Address is protected, MEMFALSE when it is not, MEMFAIL on a fault.
CheckProtect(m, chip, Address) ==
    UNION { IF r.ret # 0 THEN {[m |-> r.m, ret |-> MEMFAIL]}
            ELSE { [m |-> d.m,
                    ret |-> IF d.ret # 0 THEN MEMFAIL
                            ELSE IF IsProtected(BPLevel(r.out), Address)
                                 THEN MEMTRUE ELSE MEMFALSE]
                   : d \in SetCS(r.m, chip) }
            : r \in ReadMemStatus(m, chip, Unwritten) }

\* Proceed with F only when the target is not protected.
IfUnprotected(m, chip, Address, F(_)) ==
    UNION { IF r.ret # MEMFALSE THEN {[m |-> r.m, ret |-> MEMFAIL]}
            ELSE F(r.m)
            : r \in CheckProtect(m, chip, Address) }

\* Polls the WIP bit until it is clear, then deselects.  The device is busy
\* for fewer than MaxPolls polls.
RECURSIVE WaitWIP(_, _, _)
WaitWIP(m, chip, polls) ==
    UNION { IF r.ret = MEMFAIL THEN {[m |-> r.m, ret |-> MEMFAIL]}
            ELSE IF r.ret = MEMFALSE THEN Then(SetCS(r.m, chip), Done)
            ELSE IF polls + 1 < MaxPolls THEN WaitWIP(r.m, chip, polls + 1)
            ELSE {}
            : r \in CheckWIP(m, chip) }

RECURSIVE SendBytes(_, _, _, _)
SendBytes(m, data, from, n) ==
    IF n = 0 THEN Done(m)
    ELSE Then(SendByte(m, data[from]), LAMBDA m1 :
              SendBytes(m1, data, from + 1, n - 1))

\* One page-write transaction of n bytes: write-enable, 0x02 and address,
\* the bytes, deselect, poll to completion.
WritePage(m, chip, Address, data, from, n) ==
    Then(WriteEnable(m, chip), LAMBDA m1 :
    Then(SendCommandAndAddress(m1, chip, MWRITE, Address), LAMBDA m2 :
    Then(SendBytes(m2, data, from, n), LAMBDA m3 :
    Then(SetCS(m3, chip), LAMBDA m4 :
    WaitWIP(m4, chip, 0)))))

\* The bytes from Address to the end of its page.
BytesToBoundary(Address) == PAGE_SIZE - (Address % PAGE_SIZE)

RECURSIVE WriteChunks(_, _, _, _, _, _)
WriteChunks(m, chip, Address, data, from, remaining) ==
    IF remaining <= 0 THEN Done(m)
    ELSE LET n == Min(remaining, BytesToBoundary(Address))
         IN  Then(WritePage(m, chip, Address, data, from, n), LAMBDA m1 :
                  WriteChunks(m1, chip, Address + n, data, from + n,
                              remaining - n))

WriteData(m, chip, Address, NumBytes, data) ==
    IfUnprotected(m, chip, Address + NumBytes - 1, LAMBDA m1 :
                  WriteChunks(m1, chip, Address, data, 0, NumBytes))

Erase(m, chip, Command, Address) ==
    IfUnprotected(m, chip, Address, LAMBDA m1 :
    Then(WriteEnable(m1, chip), LAMBDA m2 :
    Then(SendCommandAndAddress(m2, chip, Command, Address), LAMBDA m3 :
    Then(SetCS(m3, chip), LAMBDA m4 :
    WaitWIP(m4, chip, 0)))))

ErasePage(m, chip, Address) == Erase(m, chip, MPE, Address)

EraseSector(m, chip, Address) == Erase(m, chip, MSE, Address)

\* The whole array must be unprotected: its highest address is the target.
EraseChip(m, chip) ==
    IfUnprotected(m, chip, MEMSIZE, LAMBDA m1 :
    Then(WriteEnable(m1, chip), LAMBDA m2 :
    Then(SendCommand(m2, chip, MCE), LAMBDA m3 :
    Then(SetCS(m3, chip), LAMBDA m4 :
    WaitWIP(m4, chip, 0)))))

\* Mutant: case 1 names the write-protect bit of chip 0.
DDRLines_Case1WP0(chip) ==
    CASE chip = 0 -> <<CS0, WP0>>
      [] chip = 1 -> <<CS1, WP0>>
      [] chip = 2 -> <<CS2, WP2>>
      [] chip = 3 -> <<CS3, WP3>>
      [] OTHER -> <<>>

\* The direction bits the switch of InitMem and CloseMem names for a chip.
DDRLines(chip) ==
    CASE chip = 0 -> <<CS0, WP0>>
      [] chip = 1 -> <<CS1, WP1>>
      [] chip = 2 -> <<CS2, WP2>>
      [] chip = 3 -> <<CS3, WP3>>
      [] OTHER -> <<>>

InitMem(m, chip) ==
    LET l == DDRLines(chip)
    IN  IF l = <<>> THEN {[m |-> m, ret |-> MEMFAIL]}
        ELSE { [m |-> r.m, ret |-> IF r.ret # 0 THEN MEMFAIL ELSE MEMSUCC]
               : r \in ClearWPIfUsed(
                     [m EXCEPT !.ddr = BitSet(BitSet(@, l[1]), l[2])], chip) }

CloseMem(m, chip) ==
    LET l == DDRLines(chip)
    IN  IF l = <<>> THEN m
        ELSE [m EXCEPT !.ddr = BitClear(BitClear(@, l[1]), l[2])]

(***************************************************************************)
(* The state machine: one action per operation of the driver.  A call runs *)
(* to its return; trace, call, ret and out describe that call until the    *)
(* caller has taken the result (TakeResult) and may issue the next call.   *)
(***************************************************************************)
M0 == [port |-> ContPort, ddr |-> ContDDR, dev |-> dev, trace |-> <<>>]

Args(op, chip, a, b) == [op |-> op, chip |-> chip, a |-> a, b |-> b]

NoCall == Args("none", 0, 0, 0)

Return(c, m, r, o) ==
    /\ ContPort' = m.port
    /\ ContDDR' = m.ddr
    /\ dev' = m.dev
    /\ trace' = m.trace
    /\ call' = c
    /\ ret' = r
    /\ out' = o
    /\ WP_USED' = WP_USED

CallReadData(chips, counts) ==
    /\ call = NoCall
    /\ \E chip \in chips, Address \in AddrArgs, NumBytes \in counts :
           \E o \in ReadData(M0, chip, Address, NumBytes, DataBuf) :
               Return(Args("ReadData", chip, Address, NumBytes),
                      o.m, o.ret, o.out)

CallWakeMem(chips) ==
    /\ call = NoCall
    /\ \E chip \in chips : \E o \in WakeMem(M0, chip) :
           Return(Args("WakeMem", chip, 0, 0), o.m, o.ret, Unwritten)

CallSleepMem(chips) ==
    /\ call = NoCall
    /\ \E chip \in chips : \E o \in SleepMem(M0, chip) :
           Return(Args("SleepMem", chip, 0, 0), o.m, o.ret, Unwritten)

CallReadMemStatus(chips) ==
    /\ call = NoCall
    /\ \E chip \in chips : \E o \in ReadMemStatus(M0, chip, Unwritten) :
           Return(Args("ReadMemStatus", chip, 0, 0), o.m, o.ret, o.out)

CallWriteMemStatus(chips) ==
    /\ call = NoCall
    /\ \E chip \in chips, status \in StatusArgs :
           \E o \in WriteMemStatus(M0, chip, status) :
               Return(Args("WriteMemStatus", chip, status, 0),
                      o.m, o.ret, o.out)

CallCheckWIP(chips) ==
    /\ call = NoCall
    /\ \E chip \in chips : \E o \in CheckWIP(M0, chip) :
           Return(Args("CheckWIP", chip, 0, 0), o.m, o.ret, Unwritten)

CallSendCommand(chips) ==
    /\ call = NoCall
    /\ \E chip \in chips, Command \in CommandArgs :
           \E o \in SendCommand(M0, chip, Command) :
               Return(Args("SendCommand", chip, Command, 0),
                      o.m, o.ret, Unwritten)

CallSetCS(chips) ==
    /\ call = NoCall
    /\ \E chip \in chips : \E o \in SetCS(M0, chip) :
           Return(Args("SetCS", chip, 0, 0), o.m, o.ret, Unwritten)

CallClearCS(chips) ==
    /\ call = NoCall
    /\ \E chip \in chips : \E o \in ClearCS(M0, chip) :
           Return(Args("ClearCS", chip, 0, 0), o.m, o.ret, Unwritten)

CallSetWP(chips) ==
    /\ call = NoCall
    /\ \E chip \in chips : \E o \in SetWP(M0, chip) :
           Return(Args("SetWP", chip, 0, 0), o.m, o.ret, Unwritten)

CallClearWP(chips) ==
    /\ call = NoCall
    /\ \E chip \in chips : \E o \in ClearWP(M0, chip) :
           Return(Args("ClearWP", chip, 0, 0), o.m, o.ret, Unwritten)

CallInitMem(chips) ==
    /\ call = NoCall
    /\ \E chip \in chips : \E o \in InitMem(M0, chip) :
           Return(Args("InitMem", chip, 0, 0), o.m, o.ret, Unwritten)

CallCloseMem(chips) ==
    /\ call = NoCall
    /\ \E chip \in chips :
           Return(Args("CloseMem", chip, 0, 0), CloseMem(M0, chip),
                  MEMSUCC, Unwritten)

CallSendByte ==
    /\ call = NoCall
    /\ \E byte \in StatusArgs : \E o \in SendByte(M0, byte) :
           Return(Args("SendByte", 0, byte, 0), o.m, o.ret, Unwritten)

\* GetPage(Address, &page): b is page before the call, out is page after.
CallGetPage ==
    /\ call = NoCall
    /\ \E Address \in PageAddrArgs, page \in PageVarInit :
           LET o == GetPage(Address, page)
           IN  Return(Args("GetPage", 0, Address, page), M0, o.ret, o.page)

CallWriteData(chips) ==
    /\ call = NoCall
    /\ \E chip \in chips, w \in WriteArgs :
           \E o \in WriteData(M0, chip, w[1], w[2], WData) :
               Return(Args("WriteData", chip, w[1], w[2]), o.m, o.ret,
                      Unwritten)

CallErasePage(chips) ==
    /\ call = NoCall
    /\ \E chip \in chips, Address \in EraseAddrArgs :
           \E o \in ErasePage(M0, chip, Address) :
               Return(Args("ErasePage", chip, Address, 0), o.m, o.ret,
                      Unwritten)

CallEraseSector(chips) ==
    /\ call = NoCall
    /\ \E chip \in chips, Address \in EraseAddrArgs :
           \E o \in EraseSector(M0, chip, Address) :
               Return(Args("EraseSector", chip, Address, 0), o.m, o.ret,
                      Unwritten)

CallEraseChip(chips) ==
    /\ call = NoCall
    /\ \E chip \in chips : \E o \in EraseChip(M0, chip) :
           Return(Args("EraseChip", chip, 0, 0), o.m, o.ret, Unwritten)

CallWriteEnable(chips) ==
    /\ call = NoCall
    /\ \E chip \in chips : \E o \in WriteEnable(M0, chip) :
           Return(Args("WriteEnable", chip, 0, 0), o.m, o.ret, Unwritten)

CallWriteDisable(chips) ==
    /\ call = NoCall
    /\ \E chip \in chips : \E o \in WriteDisable(M0, chip) :
           Return(Args("WriteDisable", chip, 0, 0), o.m, o.ret, Unwritten)

\* isProtected(level, Address): a is the address, b the level.
CallIsProtected ==
    /\ call = NoCall
    /\ \E level \in LevelArgs, Address \in ProtAddrArgs :
           Return(Args("IsProtected", 0, Address, level), M0,
                  IF IsProtected(level, Address) THEN MEMTRUE ELSE MEMFALSE,
                  Unwritten)

\* WriteMemStatus(chip, status) followed by ReadMemStatus(chip, &status2):
\* b is the STATUS register of the device before, out = <<result of the
\* write, result of the read, status2>>.
CallRoundTrip(chips) ==
    /\ call = NoCall
    /\ \E chip \in chips, status \in StatusArgs :
           \E w \in WriteMemStatus(M0, chip, status) :
               \E r \in ReadMemStatus(w.m, chip, Unwritten) :
                   Return(Args("RoundTrip", chip, status, dev.sr),
                          r.m, w.ret, <<w.ret, r.ret, r.out>>)

\* The caller has the result of the call; the driver keeps nothing of it.
\* (The model follows a READ frame that a call left open for MaxDevShift data
\* bytes and no further.)
TakeResult ==
    /\ call # NoCall
    /\ DevShifted(dev) <= MaxDevShift
    /\ call' = NoCall
    /\ trace' = <<>>
    /\ ret' = MEMSUCC
    /\ out' = Unwritten
    /\ UNCHANGED <<ContPort, ContDDR, dev, WP_USED>>

\* All chips deselected, write protection asserted, all lines inputs.
IdlePort == Pow2(CS0) + Pow2(CS1) + Pow2(CS2) + Pow2(CS3)

Init ==
    /\ ContPort = IdlePort
    /\ ContDDR = 0
    /\ dev = NoDev
    /\ trace = <<>>
    /\ call = NoCall
    /\ ret = MEMSUCC
    /\ out = Unwritten
    /\ WP_USED = MEMFALSE

Next ==
    \/ CallReadData(ChipArgs, NumBytesArgs)
    \/ CallWakeMem(ChipArgs)
    \/ CallSleepMem(ChipArgs)
    \/ CallReadMemStatus(ChipArgs)
    \/ CallWriteMemStatus(ChipArgs)
    \/ CallCheckWIP(ChipArgs)
    \/ CallSendCommand(ChipArgs)
    \/ CallSetCS(ChipArgs)
    \/ CallClearCS(ChipArgs)
    \/ CallSetWP(ChipArgs)
    \/ CallClearWP(ChipArgs)
    \/ CallInitMem(ChipArgs)
    \/ CallCloseMem(ChipArgs)
    \/ TakeResult

Spec == Init /\ [][Next]_vars

\* The driver with a device on the lines of chip DevChip.
InitDev ==
    /\ ContPort = IdlePort
    /\ ContDDR = 0
    /\ dev \in { [on |-> TRUE, sr |-> s, frame |-> <<>>, wp |-> w,
                  ptr |-> NoPtr, rx |-> RxBytes, glitch |-> TRUE]
                 : s \in DevStatusInit, w \in DevWiring }
    /\ trace = <<>>
    /\ call = NoCall
    /\ ret = MEMSUCC
    /\ out = Unwritten
    /\ WP_USED = MEMFALSE

NextDev ==
    \/ CallRoundTrip(DevChipArgs)
    \/ CallWriteMemStatus(DevChipArgs)
    \/ CallReadMemStatus(DevChipArgs)
    \/ CallSendCommand(DevChipArgs)
    \/ CallSendByte
    \/ CallSetCS(DevChipArgs)
    \/ TakeResult

SpecDev == InitDev /\ [][NextDev]_vars

\* Reads of the array of the device, between status reads and deselects, with
\* counts on both sides of zero.
NextRead ==
    \/ CallReadData(DevChipArgs, ReadCountArgs)
    \/ CallReadMemStatus(DevChipArgs)
    \/ CallSetCS(DevChipArgs)
    \/ TakeResult

SpecRead == InitDev /\ [][NextRead]_vars

\* The pin layer alone, on all four chips.
NextPins ==
    \/ CallSetCS(AllChipArgs)
    \/ CallClearCS(AllChipArgs)
    \/ CallSetWP(AllChipArgs)
    \/ CallClearWP(AllChipArgs)
    \/ CallInitMem(AllChipArgs)
    \/ CallCloseMem(AllChipArgs)
    \/ TakeResult

SpecPins == Init /\ [][NextPins]_vars

\* Both builds of the driver: WP_USED as shipped and changed to MEMTRUE.
InitBuilds ==
    /\ ContPort = IdlePort
    /\ ContDDR = 0
    /\ dev = NoDev
    /\ trace = <<>>
    /\ call = NoCall
    /\ ret = MEMSUCC
    /\ out = Unwritten
    /\ WP_USED \in {MEMFALSE, MEMTRUE}

NextBuilds ==
    \/ CallSleepMem(AllChipArgs)
    \/ CallInitMem(AllChipArgs)
    \/ CallSetWP(AllChipArgs)
    \/ CallSetCS(AllChipArgs)
    \/ TakeResult

SpecBuilds == InitBuilds /\ [][NextBuilds]_vars

\* The six operations of the driver on a memory, on the chips 0..3.
NextOps ==
    \/ CallReadData(0..3, NumBytesArgs)
    \/ CallWakeMem(0..3)
    \/ CallSleepMem(0..3)
    \/ CallReadMemStatus(0..3)
    \/ CallWriteMemStatus(0..3)
    \/ CallCheckWIP(0..3)
    \/ TakeResult

SpecOps == Init /\ [][NextOps]_vars

\* The mutating operations, on a bus whose control lines read back as driven
\* (transport calls may fail) and whose status answers are WriteRxBytes.
NextWrite ==
    \/ CallWriteData(WriteChipArgs)
    \/ CallErasePage(WriteChipArgs)
    \/ CallEraseSector(WriteChipArgs)
    \/ CallEraseChip(WriteChipArgs)
    \/ CallWriteEnable(WriteChipArgs)
    \/ CallWriteDisable(WriteChipArgs)
    \/ TakeResult

InitWrite ==
    /\ ContPort = IdlePort
    /\ ContDDR = 0
    /\ dev = [NoDev EXCEPT !.rx = WriteRxBytes, !.glitch = FALSE]
    /\ trace = <<>>
    /\ call = NoCall
    /\ ret = MEMSUCC
    /\ out = Unwritten
    /\ WP_USED = MEMFALSE

SpecWrite == InitWrite /\ [][NextWrite]_vars

\* The address arithmetic of the Protection Policy.
NextPolicy ==
    \/ CallGetPage
    \/ CallIsProtected
    \/ TakeResult

SpecPolicy == Init /\ [][NextPolicy]_vars

(***************************************************************************)
(* Reading the log of the returned call                                    *)
(***************************************************************************)
Returned(op) == call.op = op

ValidChip == call.chip \in 0..3

\* The lines of the chip the call names (PORTA0..3 and PORTA4..7).
CSLine == call.chip

WPLine == call.chip + 4

IsXfer(e) == e[1] \in {"tx", "rx"}

\* No transport call failed and every pin read back at the level just driven.
FaultFree ==
    \A i \in 1..Len(trace) :
        /\ IsXfer(trace[i]) => trace[i][3] = 1
        /\ trace[i][1] = "pin" =>
               /\ i > 1
               /\ trace[i - 1] = <<"drive", trace[i][2], trace[i][3]>>

Sel(line) == << <<"drive", line, 0>>, <<"pin", line, 0>> >>

Desel(line) == << <<"drive", line, 1>>, <<"pin", line, 1>> >>

Tx(b) == <<"tx", b, 1>>

Rx(b) == <<"rx", b, 1>>

Byte2(a) == (a \div 65536) % 256

Byte1(a) == (a \div 256) % 256

Byte0(a) == a % 256

(***************************************************************************)
(* Claims                                                                  *)
(***************************************************************************)

\* C1: a fault-free ReadData(chip, Address, NumBytes, data), chip in 0..3 and
\* NumBytes >= 0, logs exactly: chip-select of the chip driven low, 0x03,
\* the address bytes 23-16, 15-8, 7-0, NumBytes receives stored in order in
\* data[0..NumBytes-1], chip-select driven high; the rest of data is
\* untouched and command and address are sent once.
C1_ReadDataTrace ==
    (Returned("ReadData") /\ ValidChip /\ call.b >= 0 /\ FaultFree) =>
        /\ ret = MEMSUCC
        /\ trace = Sel(CSLine)
                   \o <<Tx(3), Tx(Byte2(call.a)), Tx(Byte1(call.a)),
                        Tx(Byte0(call.a))>>
                   \o [i \in 1..call.b |-> Rx(out[i - 1])]
                   \o Desel(CSLine)
        /\ \A i \in DOMAIN out : i >= call.b => out[i] = Unwritten

C1_Witness ==
    /\ Returned("ReadData") /\ call.chip = 3 /\ call.a = 74565 /\ call.b = 2
    /\ FaultFree /\ ret = MEMSUCC
    /\ out[0] # out[1] /\ out[0] # Unwritten /\ out[1] # Unwritten

\* C3: a fault-free ReadMemStatus(chip, status) drives chip-select low, sends
\* 0x05, receives one byte into *status and returns success with the
\* chip-select of the chip still low; it never drives chip-select high.
C3_ReadStatusLeavesSelected ==
    (Returned("ReadMemStatus") /\ ValidChip /\ FaultFree) =>
        /\ ret = MEMSUCC
        /\ trace = Sel(CSLine) \o <<Tx(5), Rx(out)>>
        /\ ~TestBit(ContPort, CSLine)

C3_Witness ==
    /\ Returned("ReadMemStatus") /\ call.chip = 1 /\ FaultFree
    /\ ret = MEMSUCC /\ out = 141 /\ ~TestBit(ContPort, 1)

\* The level last driven on a line before position i of the log (-1: none).
RECURSIVE LastDriven(_, _)
LastDriven(line, i) ==
    IF i <= 1 THEN -1
    ELSE IF trace[i - 1][1] = "drive" /\ trace[i - 1][2] = line
         THEN trace[i - 1][3]
         ELSE LastDriven(line, i - 1)

\* C4: a fault-free WriteMemStatus(chip, status) logs in this order: write
\* protect driven high, chip-select low and 0x01, the payload byte, write
\* protect driven low, then the status read (0x05, one receive); write
\* protect is high whenever 0x01 or the payload is transmitted.
C4_WriteStatusOrder ==
    (Returned("WriteMemStatus") /\ ValidChip /\ FaultFree) =>
        /\ trace = Desel(WPLine) \o Sel(CSLine)
                   \o <<Tx(1), Tx(call.a)>>
                   \o Sel(WPLine) \o Sel(CSLine)
                   \o <<Tx(5), Rx(out)>>
        /\ \A i \in 1..Len(trace) :
               (trace[i] \in {Tx(1), Tx(call.a)} /\ i <= 6) =>
                   LastDriven(WPLine, i) = 1

C4_Witness ==
    /\ Returned("WriteMemStatus") /\ call.chip = 3 /\ call.a = 140
    /\ FaultFree /\ Len(trace) = 12

\* C5: with no pin or transport fault, WriteMemStatus returns success exactly
\* when the byte read back equals the requested byte on bits 7, 3 and 2
\* (mask 0x8C); the other bits never cause a failure.
C5_StatusCompareMask ==
    (Returned("WriteMemStatus") /\ ValidChip /\ FaultFree) =>
        /\ ret \in {MEMSUCC, MEMFAIL}
        /\ ret = MEMSUCC <=>
               \A b \in {7, 3, 2} : TestBit(out, b) = TestBit(call.a, b)

C5_Witness ==
    /\ Returned("WriteMemStatus") /\ ValidChip /\ FaultFree
    /\ ret = MEMSUCC /\ call.a = 140 /\ out = 141

\* C2: whenever ReadData, WakeMem, SleepMem, ReadMemStatus, WriteMemStatus or
\* CheckWIP returns failure, the chip-select line of the chip is high.
C2_FailureDeselects ==
    ( /\ call.op \in {"ReadData", "WakeMem", "SleepMem", "ReadMemStatus",
                      "WriteMemStatus", "CheckWIP"}
      /\ ValidChip
      /\ ret = MEMFAIL ) => TestBit(ContPort, CSLine)

SameOnMask(x, y) == \A b \in {7, 3, 2} : TestBit(x, b) = TestBit(y, b)

\* C6: against a device that executes WRSR when chip-select is raised after
\* the payload: when the device is not hardware write-protected,
\* WriteMemStatus(chip, v) succeeds and the following ReadMemStatus returns a
\* byte equal to v on the bits of mask 0x8C; when it is protected and v
\* differs from the stored bits, WriteMemStatus fails.
C6_StatusRoundTrip ==
    (Returned("RoundTrip") /\ call.chip = DevChip /\ dev.on /\ FaultFree) =>
        LET protected == dev.wp = "low" /\ TestBit(call.b, 7)
        IN  /\ ~protected =>
                   /\ out[1] = MEMSUCC
                   /\ out[2] = MEMSUCC
                   /\ SameOnMask(out[3], call.a)
            /\ (protected /\ ~SameOnMask(call.a, call.b)) =>
                   out[1] = MEMFAIL

\* C7: WakeMem sends 0xAB and the dummy address, receives one byte and
\* deselects; it returns success exactly when every bus and pin step
\* succeeded and the byte received is 0x29.
C7_WakeSuccessIff ==
    (Returned("WakeMem") /\ ValidChip) =>
        /\ FaultFree =>
               /\ Len(trace) = 9
               /\ trace = Sel(CSLine)
                          \o <<Tx(171), Tx(165), Tx(165), Tx(165), trace[7]>>
                          \o Desel(CSLine)
               /\ trace[7][1] = "rx"
        /\ ret = MEMSUCC <=>
               (FaultFree /\ Len(trace) = 9 /\ trace[7] = Rx(41))

\* C8: with a chip index outside 0..3 every operation that takes a chip
\* returns failure, changes neither the level nor the direction of a control
\* line and transfers no byte.
C8_BadChipRejected ==
    [][ ( /\ call = NoCall
          /\ call'.op \in {"SetCS", "ClearCS", "SetWP", "ClearWP",
                           "SendCommand", "ReadData", "WakeMem", "SleepMem",
                           "ReadMemStatus", "WriteMemStatus", "InitMem"}
          /\ call'.chip \notin 0..3 )
        => ( /\ ret' = MEMFAIL
             /\ ContPort' = ContPort
             /\ ContDDR' = ContDDR
             /\ \A i \in 1..Len(trace') : ~IsXfer(trace'[i]) ) ]_vars

\* C9: when the read-back after driving chip-select low shows the line still
\* high, the operation returns failure and makes no transport call after it.
C9_NoTransferUnlessSelected ==
    ( /\ call.op \in {"SendCommand", "ReadData", "WakeMem", "SleepMem",
                      "ReadMemStatus", "WriteMemStatus"}
      /\ ValidChip ) =>
        \A j \in 2..Len(trace) :
            ( /\ trace[j - 1] = <<"drive", CSLine, 0>>
              /\ trace[j] = <<"pin", CSLine, 1>> ) =>
                /\ ret = MEMFAIL
                /\ \A i \in (j + 1)..Len(trace) : ~IsXfer(trace[i])

\* C10: SetCS, ClearCS, SetWP and ClearWP, chip in 0..3, drive the line of
\* the chip to the requested level (Set high, Clear low), then read the port
\* back, and return success exactly when the bit read back for that line is
\* the requested level; a mismatch returns failure.
C10_PinReadback ==
    (call.op \in {"SetCS", "ClearCS", "SetWP", "ClearWP"} /\ ValidChip) =>
        LET line == IF call.op \in {"SetCS", "ClearCS"} THEN CSLine
                    ELSE WPLine
            lvl == IF call.op \in {"SetCS", "SetWP"} THEN 1 ELSE 0
        IN  /\ Len(trace) = 2
            /\ trace[1] = <<"drive", line, lvl>>
            /\ trace[2][1] = "pin" /\ trace[2][2] = line
            /\ ret = MEMSUCC <=> trace[2][3] = lvl
            /\ trace[2][3] # lvl => ret = MEMFAIL
            /\ TestBit(ContPort, line) <=> lvl = 1

C10_Witness ==
    /\ Returned("ClearWP") /\ call.chip = 2 /\ ret = MEMFAIL
    /\ trace = << <<"drive", 6, 0>>, <<"pin", 6, 1>> >>
    /\ TestBit(ContPort, 2)

\* C11: for every address a in 0..0x1FFFF, GetPage(a, &page) returns success
\* and leaves page = a / 256; for every a >= 0x20000 it returns failure.
C11_GetPage ==
    Returned("GetPage") =>
        /\ call.a \in 0..MEMSIZE => (ret = MEMSUCC /\ out = call.a \div 256)
        /\ call.a > MEMSIZE => ret = MEMFAIL

\* The transmissions of the log.
TxCount == Cardinality({i \in 1..Len(trace) : trace[i][1] = "tx"})

SleepFrame ==
    /\ ret = MEMSUCC
    /\ TxCount = 1
    /\ \E i \in 1..Len(trace) :
           /\ trace[i] = Tx(MDPD)
           /\ LastDriven(CSLine, i) = 0
           /\ \A j \in (i + 1)..Len(trace) : trace[j][2] = CSLine
    /\ trace[Len(trace) - 1] = <<"drive", CSLine, 1>>
    /\ \A i \in 1..Len(trace) : trace[i][1] # "rx"

\* C13 as stated: a fault-free SleepMem(chip) selects the chip, transmits
\* exactly one byte 0xB9 and then drives chip-select high; with WP_USED true
\* it first drives the write-protect line high, with WP_USED false it leaves
\* the write-protect line alone.
C13_SleepDeassertsWP ==
    (Returned("SleepMem") /\ ValidChip /\ FaultFree) =>
        /\ SleepFrame
        /\ WP_USED # MEMFALSE =>
               /\ trace[1] = <<"drive", WPLine, 1>>
               /\ TestBit(ContPort, WPLine)
        /\ WP_USED = MEMFALSE =>
               \A i \in 1..Len(trace) : trace[i][2] # WPLine

\* C13 amended: ... with WP_USED true it first asserts write protection
\* (drives the write-protect line low, read back low) and never drives it
\* high; with WP_USED false it leaves the write-protect line alone.
C13_SleepAssertsWP ==
    (Returned("SleepMem") /\ ValidChip /\ FaultFree) =>
        /\ SleepFrame
        /\ trace = (IF WP_USED # MEMFALSE THEN Sel(WPLine) ELSE <<>>)
                   \o Sel(CSLine) \o Sel(CSLine) \o <<Tx(MDPD)>>
                   \o Desel(CSLine)
        /\ WP_USED # MEMFALSE => ~TestBit(ContPort, WPLine)
        /\ WP_USED = MEMFALSE =>
               \A i \in 1..Len(trace) : trace[i][2] # WPLine

C13_Witness ==
    /\ Returned("SleepMem") /\ call.chip = 2 /\ FaultFree
    /\ WP_USED = MEMTRUE /\ Len(trace) = 9
    /\ trace[1] = <<"drive", 6, 0>> /\ trace[7] = Tx(MDPD)

\* The step a failed call returned from, read off the log t of the call: a
\* transport call that failed, a pin that read back at the other level, or
\* (no step failed) the comparison the operation op makes on the byte read.
FailCause(op, t) ==
    LET e == t[Len(t)]
    IN  IF IsXfer(e) /\ e[3] = 0 THEN "transport"
        ELSE IF e[1] = "pin" /\ t[Len(t) - 1] # <<"drive", e[2], e[3]>>
        THEN "pin"
        ELSE IF op = "WriteMemStatus" THEN "status"
        ELSE "signature"

\* The <<cause, result>> pairs of the failures WriteMemStatus and WakeMem can
\* return when called in the present state of the port.
Failures ==
    { <<FailCause("WriteMemStatus", o.m.trace), o.ret>> :
          o \in { x \in UNION { WriteMemStatus(M0, chip, status) :
                                chip \in GoodChipArgs, status \in StatusArgs }
                   : x.ret # MEMSUCC } }
    \cup { <<FailCause("WakeMem", o.m.trace), o.ret>> :
              o \in { x \in UNION { WakeMem(M0, chip) : chip \in GoodChipArgs }
                       : x.ret # MEMSUCC } }

\* C14: the result of a failed operation tells the cause apart: a pin
\* read-back mismatch, a transport failure, a status read-back that does not
\* match (WriteMemStatus) and a wrong signature byte (WakeMem) each give a
\* result value different from the others: no failure of another cause has
\* the result of the failure just returned.
C14_FailureCauses ==
    (call.op \in {"WriteMemStatus", "WakeMem"} /\ ValidChip /\ ret # MEMSUCC) =>
        \A y \in Failures :
            y[1] # FailCause(call.op, trace) => y[2] # ret

\* Every transport call of the log succeeded.
XferOK == \A i \in 1..Len(trace) : IsXfer(trace[i]) => trace[i][3] = 1

\* C15: CheckWIP(chip) makes one status read (0x05, one receive) and returns
\* MEMTRUE exactly when bit 0 of the byte received is 1 and MEMFALSE exactly
\* when it is 0, whatever the other bits; when the status read fails it
\* returns MEMFAIL, which is neither of the two and is not zero (so a loop
\* that polls while the result is non-zero goes on).
C15_CheckWIP ==
    (Returned("CheckWIP") /\ ValidChip) =>
        /\ XferOK =>
               /\ Len(trace) = 4
               /\ trace[3] = Tx(MRDSR)
               /\ trace[4][1] = "rx"
               /\ ret = IF trace[4][2] % 2 = 1 THEN MEMTRUE ELSE MEMFALSE
        /\ ~XferOK =>
               /\ ret = MEMFAIL
               /\ TxCount <= 1
               /\ \A i \in 1..(Len(trace) - 1) : IsXfer(trace[i]) => trace[i][3] = 1
        /\ ret = MEMFAIL => (ret \notin {MEMTRUE, MEMFALSE} /\ ret # 0)
        /\ ret \in {MEMTRUE, MEMFALSE, MEMFAIL}

C15_Witness ==
    /\ Returned("CheckWIP") /\ call.chip = 1 /\ Len(trace) = 4
    /\ trace[4] = Rx(114) /\ ret = MEMFALSE

RECURSIVE SplitFrames(_, _, _)
SplitFrames(i, cur, acc) ==
    IF i > Len(trace) THEN Append(acc, cur)
    ELSE IF trace[i] = <<"drive", CSLine, 1>>
    THEN SplitFrames(i + 1, <<>>, Append(acc, cur))
    ELSE IF IsXfer(trace[i]) THEN SplitFrames(i + 1, Append(cur, trace[i]), acc)
    ELSE SplitFrames(i + 1, cur, acc)

Frames == SplitFrames(1, <<>>, <<>>)

\* A frame of status polls: 0x05 and a receive, again while WIP (bit 0) is
\* set, ending with the first byte whose WIP is clear.
PollOK(f) ==
    /\ Len(f) >= 2
    /\ Len(f) % 2 = 0
    /\ \A i \in 1..Len(f) :
           IF i % 2 = 1 THEN f[i] = Tx(MRDSR)
           ELSE /\ f[i][1] = "rx"
                /\ f[i][2] % 2 = 1 <=> i < Len(f)

\* From frame k on: for each chunk a frame with 0x06 alone, a frame with
\* 0x02, the address of the chunk and its n bytes, n no more than what
\* remains of the page and of the payload and less than the payload only at
\* a page boundary, then the polls; nothing after the last chunk.
RECURSIVE ChunksOK(_, _, _, _, _)
ChunksOK(F, k, addr, from, remaining) ==
    IF remaining = 0 THEN k = Len(F) /\ F[k] = <<>>
    ELSE /\ k + 3 <= Len(F)
         /\ F[k] = <<Tx(6)>>
         /\ LET n == Len(F[k + 1]) - 4
            IN  /\ n >= 1
                /\ n <= remaining
                /\ (addr % 256) + n <= 256
                /\ n < remaining => (addr + n) % 256 = 0
                /\ F[k + 1] = <<Tx(2), Tx(Byte2(addr)), Tx(Byte1(addr)),
                                Tx(Byte0(addr))>>
                              \o [i \in 1..n |-> Tx(WData[from + i - 1])]
                /\ PollOK(F[k + 2])
                /\ ChunksOK(F, k + 3, addr + n, from + n, remaining - n)

\* C16: a WriteData(chip, Address, NumBytes, data) that runs to success
\* without a fault sends the payload in consecutive chunks split at the
\* 256-byte page boundaries, one 0x02 transaction per chunk and never a byte
\* past the page of the chunk, every chunk preceded by its own 0x06 frame and
\* followed by polls of WIP until it is clear; 10 bytes from 5 bytes before
\* a page end are two transactions of 5 and 5 bytes.
C16_WritePaging ==
    (Returned("WriteData") /\ ValidChip /\ FaultFree /\ ret = MEMSUCC) =>
        /\ ChunksOK(Frames, 2, call.a, 0, call.b)
        /\ (call.a % 256 = 251 /\ call.b = 10) =>
               /\ Len(Frames) = 8
               /\ Len(Frames[3]) = 4 + 5
               /\ Len(Frames[6]) = 4 + 5

C16_Witness ==
    /\ Returned("WriteData") /\ FaultFree /\ ret = MEMSUCC
    /\ call.a = 251 /\ call.b = 10
    /\ Len(Frames) = 8
    /\ Frames[2] = <<Tx(6)>> /\ Frames[5] = <<Tx(6)>>
    /\ Frames[6] = <<Tx(2), Tx(0), Tx(1), Tx(0), Tx(165), Tx(166), Tx(167),
                     Tx(168), Tx(169)>>
    /\ Len(Frames[4]) = 4 /\ Len(Frames[7]) = 2

\* The highest address a mutating call touches.
Target ==
    CASE call.op = "WriteData" -> call.a + call.b - 1
      [] call.op = "EraseChip" -> 131071
      [] OTHER -> call.a

\* Protected by the table of the claim, at the level in status byte s.
TableProtected(s, a) == a > <<131071, 98303, 65535, 0>>[((s \div 4) % 4) + 1]

\* C17: WriteData, ErasePage, EraseSector and EraseChip validate the target
\* against the block protection level before the write-enable opcode 0x06
\* is sent: 0x06 and the mutating opcode are sent only after a status read
\* that shows the target unprotected, and when it shows the target
\* protected the operation returns failure having sent neither.
C17_ProtectBeforeEnable ==
    ( /\ call.op \in {"WriteData", "ErasePage", "EraseSector", "EraseChip"}
      /\ ValidChip ) =>
        LET F == Frames
            checked == /\ Len(F[1]) = 2
                       /\ F[1][1] = Tx(MRDSR)
                       /\ F[1][2][1] = "rx" /\ F[1][2][3] = 1
            mutating == {i \in 1..Len(trace) :
                            /\ trace[i][1] = "tx"
                            /\ trace[i][2] \in {6, 2, 66, 216, 199}}
        IN  /\ mutating # {} =>
                   (checked /\ ~TableProtected(F[1][2][2], Target))
            /\ (checked /\ TableProtected(F[1][2][2], Target)) =>
                   (ret = MEMFAIL /\ mutating = {} /\ TxCount = 1)
            /\ (FaultFree /\ checked /\ ~TableProtected(F[1][2][2], Target))
                   => (ret = MEMSUCC /\ mutating # {})

C17_Witness ==
    /\ Returned("EraseChip") /\ FaultFree /\ ret = MEMFAIL
    /\ Frames = << <<Tx(MRDSR), Rx(141)>>, <<>> >>
    /\ TestBit(ContPort, CSLine)

\* C19: every mutating command is preceded by arming the write-enable latch:
\* WriteMemStatus transmits 0x06 in a chip-select frame of its own (the
\* frame is closed by driving chip-select high) before it transmits 0x01.
C19_WriteEnableFirst ==
    (Returned("WriteMemStatus") /\ ValidChip) =>
        \A i \in 1..Len(trace) :
            (trace[i][1] = "tx" /\ trace[i][2] = MWRSR) =>
                \E j \in 1..(i - 1) :
                    /\ trace[j] = Tx(MWREN)
                    /\ LastDriven(CSLine, j) = 0
                    /\ \E k \in (j + 1)..(i - 1) :
                           trace[k] = <<"drive", CSLine, 1>>

\* The chip-select lines that are low when entry i of the log is made: a
\* call drives the line of its own chip only, the other lines are as the
\* port shows them.
SelectedAt(i) ==
    {l \in 0..3 : l # CSLine /\ ~TestBit(ContPort, l)}
    \cup (IF LastDriven(CSLine, i) = 0 THEN {CSLine} ELSE {})

\* C20: from all four chip-selects high, after any sequence of ReadData,
\* WakeMem, SleepMem, ReadMemStatus, WriteMemStatus and CheckWIP on chips in
\* 0..3, successful or failed, at most one chip-select line is low, and no
\* byte is transferred while two chips are selected.
C20_OneChipSelected ==
    /\ Cardinality({l \in 0..3 : ~TestBit(ContPort, l)}) <= 1
    /\ call # NoCall =>
           \A i \in 1..Len(trace) :
               IsXfer(trace[i]) => Cardinality(SelectedAt(i)) <= 1

\* The level of a line before entry i of the log t of a call that started
\* with the port latch at port.
RECURSIVE LevelBefore(_, _, _, _)
LevelBefore(t, port, line, i) ==
    IF i <= 1 THEN (IF TestBit(port, line) THEN 1 ELSE 0)
    ELSE IF t[i - 1][1] = "drive" /\ t[i - 1][2] = line THEN t[i - 1][3]
    ELSE LevelBefore(t, port, line, i - 1)

\* Entry i of t is the transmission of an opcode: SendCommand drives
\* chip-select low, reads the port back and transmits Command.
IsOpcode(t, line, i) ==
    /\ i >= 3
    /\ t[i][1] = "tx"
    /\ t[i - 1][1] = "pin"
    /\ t[i - 2] = <<"drive", line, 0>>

\* Entry i of t is the first transfer after the line fell from high to low.
FirstAfterFall(t, port, line, i) ==
    \E j \in 1..(i - 1) :
        /\ t[j] = <<"drive", line, 0>>
        /\ LevelBefore(t, port, line, j) = 1
        /\ \A k \in (j + 1)..(i - 1) :
               ~IsXfer(t[k]) /\ t[k] # <<"drive", line, 1>>

\* C21: in any sequence of operations on chips in 0..3, every opcode byte
\* transmitted is the first byte after a high-to-low transition of the
\* chip-select of the chip: no opcode is sent into a frame that is already
\* open, whether an earlier call or the call itself opened it.
C21_OpcodeOpensFrame ==
    [][ ( /\ call = NoCall
          /\ call'.op \in {"ReadData", "WakeMem", "SleepMem", "ReadMemStatus",
                           "WriteMemStatus", "CheckWIP"}
          /\ call'.chip \in 0..3 )
        => \A i \in 1..Len(trace') :
               IsOpcode(trace', call'.chip, i)
                   => FirstAfterFall(trace', ContPort, call'.chip, i) ]_vars

\* C22: on every return path of WriteMemStatus(chip, status), chip in 0..3,
\* success or failure at any step, the write-protect line of the chip is low
\* when the call returns, provided it was low when the call started.
C22_WriteStatusRestoresWP ==
    [][ ( /\ call = NoCall
          /\ call'.op = "WriteMemStatus"
          /\ call'.chip \in 0..3
          /\ ~TestBit(ContPort, GetWP(call'.chip)) )
        => ~TestBit(ContPort', GetWP(call'.chip)) ]_vars

\* The control lines (chip-select and write-protect) of a chip.
LinesOf(chip) == {chip, chip + 4}

\* C23: an operation on chip i in 0..3 changes only the chip-select and
\* write-protect lines of chip i: it drives no line of another chip, and the
\* level of every line of every other chip is the same after the call as
\* before it, for every operation and every outcome.
C23_OtherChipsUntouched ==
    [][ ( /\ call = NoCall
          /\ call'.op \in {"ReadData", "WakeMem", "SleepMem", "ReadMemStatus",
                           "WriteMemStatus", "CheckWIP"}
          /\ call'.chip \in 0..3 )
        => /\ \A i \in 1..Len(trace') :
                  trace'[i][1] \in {"drive", "pin"}
                      => trace'[i][2] \in LinesOf(call'.chip)
           /\ \A l \in 0..7 \ LinesOf(call'.chip) :
                  TestBit(ContPort', l) = TestBit(ContPort, l) ]_vars

\* A status write on chip 1 has returned while chip 0 is selected and the
\* write protection of chip 3 is de-asserted.
C23_Witness ==
    /\ Returned("WriteMemStatus") /\ call.chip = 1 /\ ret = MEMSUCC
    /\ ~TestBit(ContPort, CS0)
    /\ TestBit(ContPort, WP3)
    /\ ~TestBit(ContPort, CS1) /\ ~TestBit(ContPort, WP1)

\* C24: InitMem(chip), chip in 0..3, sets exactly the direction bits of the
\* chip-select and write-protect lines of the chip and leaves every other
\* direction bit unchanged; CloseMem(chip) clears exactly those two bits, so
\* that CloseMem(chip) on the direction register InitMem(chip) makes of the
\* all-input state gives the all-input state back; with chip outside 0..3
\* InitMem returns failure and CloseMem does nothing.
C24_InitCloseDirection ==
    [][ ( /\ call = NoCall
          /\ call'.op \in {"InitMem", "CloseMem"} )
        => LET chip == call'.chip
               init == call'.op = "InitMem"
           IN  IF chip \in 0..3
               THEN /\ \A b \in 0..7 :
                           TestBit(ContDDR', b) =
                               IF b \in LinesOf(chip) THEN init
                               ELSE TestBit(ContDDR, b)
                    /\ (~init /\ ContDDR = Pow2(chip) + Pow2(chip + 4))
                           => ContDDR' = 0
               ELSE /\ ContDDR' = ContDDR
                    /\ ContPort' = ContPort
                    /\ trace' = <<>>
                    /\ init => ret' = MEMFAIL ]_vars

\* InitMem(2) has returned with chip 0 initialised before it.
C24_Witness ==
    /\ Returned("InitMem") /\ call.chip = 2 /\ ret = MEMSUCC
    /\ ContDDR = Pow2(CS0) + Pow2(WP0) + Pow2(CS2) + Pow2(WP2)

\* The receives of the log, failed ones included.
RxCount == Cardinality({i \in 1..Len(trace) : trace[i][1] = "rx"})

\* C25: ReadData, chip in 0..3, receives exactly max(NumBytes, 0) bytes: with
\* NumBytes = 0 and with every negative NumBytes it makes no receive and
\* writes nothing to data, and when command, address and deselect succeed it
\* returns success after exactly: chip-select low, 0x03, the three address
\* bytes, chip-select high.
C25_ReadCountClamped ==
    (Returned("ReadData") /\ ValidChip) =>
        /\ FaultFree => RxCount = (IF call.b > 0 THEN call.b ELSE 0)
        /\ call.b <= 0 =>
               /\ RxCount = 0
               /\ out = DataBuf
               /\ FaultFree =>
                      /\ ret = MEMSUCC
                      /\ trace = Sel(CSLine)
                                 \o <<Tx(MREAD), Tx(Byte2(call.a)),
                                      Tx(Byte1(call.a)), Tx(Byte0(call.a))>>
                                 \o Desel(CSLine)

====
